---- MODULE Spec2Model ----
(***************************************************************************)
(* Model of the AdiOS ecosystem integration unit                           *)
(* (src/src/integration/adios_integration.rs): the AdiosPlugin struct, its  *)
(* inherent methods and its implementation of the Plugin trait.            *)
(*                                                                         *)
(* Time is counted in whole seconds.  Every host call happens at a clock   *)
(* reading t that is not earlier than the reading of the previous call;    *)
(* a call is atomic with respect to the clock, so every chrono::Utc::now() *)
(* evaluated inside one call yields the call's reading t.                  *)
(*                                                                         *)
(* Option<T> is modelled as a sequence of length at most one: None is <<>> *)
(* and Some(x) is <<x>>.  A HealthStatus is a tuple whose head is the      *)
(* variant name, followed by the diagnostic string where there is one.     *)
(* A PluginResult is <<"Ok", value>> or <<"Err", error>>.                  *)
(* A formatted text is the sequence of the pieces format! concatenates.    *)
(*                                                                         *)
(* lastOp, result and pre record the latest call, what it returned and the *)
(* plugin as it was before it; healthArg records the argument of the       *)
(* latest update_health call, None while there has been none.              *)
(*                                                                         *)
(* manifest is the file adios-plugin.toml as create_plugin_info_from_      *)
(* manifest finds it and created is what that function returned, None      *)
(* while it has not been called.  The file is <<"Unreadable">> when        *)
(* read_to_string fails, <<"Malformed">> when toml::from_str fails and     *)
(* <<"Toml", v>> when it parses to the toml::Value v.  A toml::Value is    *)
(* <<"Table", f>>, <<"String", s>> or <<"Integer", i>>.                    *)
(***************************************************************************)
EXTENDS Integers, Sequences, FiniteSets, TLC

VARIABLES state, ctx, bus, now, lastOp, result, pre, healthArg,
          manifest, created

vars == <<state, ctx, bus, now, lastOp, result, pre, healthArg,
          manifest, created>>

(* ---------------------------------------------------------------- bounds *)

\* Largest clock reading (seconds) explored.
MaxTime == 900

\* Seconds that may pass between two consecutive host calls.
Deltas == {0, 299, 300, 301}

\* Handles the host may pass to init.
Contexts == {"ctx1", "ctx2"}
Buses == {"bus1", "bus2"}

\* Senders and payloads of inter-plugin messages.
Senders == {"peer-a", "peer-b"}
Payloads == {"ping", "shutdown"}

(* ------------------------------------------------------------ data model *)

None == <<>>
Some(x) == <<x>>
IsSome(o) == Len(o) = 1
Unwrap(o) == o[1]

Healthy == <<"Healthy">>
Warning(msg) == <<"Warning", msg>>
Error(msg) == <<"Error", msg>>

HealthStatus == {Healthy, Warning("low disk"), Error("disk failure")}

Ok(v) == <<"Ok", v>>
Err(e) == <<"Err", e>>
IsOk(r) == r[1] = "Ok"
Unit == "()"

\* The sync threshold of tick, in minutes, and the length of a minute.
SyncMinutes == 5
SecondsPerMinute == 60

\* Integer division truncating toward zero, as Rust's `/` on i64.
TruncDiv(a, b) == IF a >= 0 THEN a \div b ELSE -((-a) \div b)

\* num_minutes as it would be if the duration were read in seconds
\* (num_seconds) where minutes are meant.
num_seconds_for_minutes(later, earlier) == later - earlier

\* chrono: later.signed_duration_since(earlier).num_minutes()
num_minutes(later, earlier) == TruncDiv(later - earlier, SecondsPerMinute)

\* new as it would be if a constructed plugin counted as initialized.
new_initialized ==
    [state |-> [initialized |-> TRUE, active |-> FALSE,
                last_sync |-> None, health_status |-> Healthy],
     ctx |-> None,
     bus |-> None]

\* AdiosPlugin::new: the fields of a freshly constructed plugin.
new ==
    [state |-> [initialized |-> FALSE, active |-> FALSE,
                last_sync |-> None, health_status |-> Healthy],
     ctx |-> None,
     bus |-> None]

\* The plugin as one value: the fields of AdiosPlugin (info is immutable).
Self == [state |-> state, ctx |-> ctx, bus |-> bus]

(* ---------------------------------------------------------------- manifest *)

TomlTable(f) == <<"Table", f>>
TomlString(s) == <<"String", s>>
TomlInteger(i) == <<"Integer", i>>

\* toml::Value::get with a string key: None unless the value is a table
\* that has the key.
get(v, key) ==
    IF v[1] = "Table" /\ key \in DOMAIN v[2] THEN Some(v[2][key]) ELSE None

\* toml::Value::as_str
as_str(v) == IF v[1] = "String" THEN Some(v[2]) ELSE None

\* Option::unwrap_or
unwrap_or(o, default) == IF IsSome(o) THEN Unwrap(o) ELSE default

\* section.get(key).and_then(|v| v.as_str())
get_str(section, key) ==
    IF IsSome(get(section, key)) THEN as_str(Unwrap(get(section, key))) ELSE None

\* The match on the category string in create_plugin_info_from_manifest.
category_of(c) ==
    CASE c = "productivity" -> "Productivity"
      [] c = "development" -> "Core"
      [] c = "enterprise" -> "Integration"
      [] c = "communication" -> "Communication"
      [] c = "wellness" -> "Wellness"
      [] c = "display" -> "Display"
      [] OTHER -> "Other"

\* The PluginInfoBuilder chain of create_plugin_info_from_manifest.
build_info(section) ==
    [id |-> unwrap_or(get_str(section, "name"), "unknown"),
     name |-> unwrap_or(get_str(section, "name"), "Unknown Plugin"),
     version |-> unwrap_or(get_str(section, "version"), "0.1.0"),
     description |-> unwrap_or(get_str(section, "description"), ""),
     author |-> unwrap_or(get_str(section, "author"), ""),
     category |-> category_of(unwrap_or(get_str(section, "category"), "other"))]

\* The head of create_plugin_info_from_manifest: read the file, parse it
\* and take its "plugin" entry.
plugin_section(file) ==
    IF file[1] = "Unreadable"
      THEN Err(<<"InitError", "Failed to read manifest">>)
    ELSE IF file[1] = "Malformed"
      THEN Err(<<"InitError", "Failed to parse manifest">>)
    ELSE IF ~IsSome(get(file[2], "plugin"))
      THEN Err(<<"InitError", "No [plugin] section in manifest">>)
    ELSE Ok(Unwrap(get(file[2], "plugin")))

\* create_plugin_info_from_manifest as it would be if the version were a
\* required field.
create_plugin_info_requires_version(file) ==
    LET sec == plugin_section(file)
    IN  IF ~IsOk(sec) THEN sec
        ELSE IF ~IsSome(get_str(sec[2], "version"))
          THEN Err(<<"InitError", "No version in manifest">>)
        ELSE Ok(build_info(sec[2]))

\* create_plugin_info_from_manifest
create_plugin_info_from_manifest(file) ==
    LET sec == plugin_section(file)
    IN  IF IsOk(sec) THEN Ok(build_info(sec[2])) ELSE sec

(* -------------------------------------------------------- inherent methods *)

\* update_health as it would be if a new status were merged with the
\* current one, an Error staying until Healthy is reported.
update_health_keeps_error(self, status) ==
    IF self.state.health_status[1] = "Error" /\ status[1] = "Warning"
      THEN self
      ELSE [self EXCEPT !.state.health_status = status]

\* AdiosPlugin::update_health
update_health(self, status) ==
    [self EXCEPT !.state.health_status = status]

\* sync_with_ecosystem as it would be if a missing event bus were an error.
sync_fails_without_bus(self, t) ==
    IF IsSome(self.bus)
      THEN [self |-> [self EXCEPT !.state.last_sync = Some(t)],
            result |-> Ok(Unit)]
      ELSE [self |-> self, result |-> Err("no event bus")]

\* sync_with_ecosystem as it would be if it stamped last_sync without
\* looking for the event bus.
sync_stamps_without_bus(self, t) ==
    [self |-> [self EXCEPT !.state.last_sync = Some(t)], result |-> Ok(Unit)]

\* AdiosPlugin::sync_with_ecosystem at clock reading t
sync_with_ecosystem(self, t) ==
    [self |-> IF IsSome(self.bus)
                THEN [self EXCEPT !.state.last_sync = Some(t)]
                ELSE self,
     result |-> Ok(Unit)]

\* handle_plugin_message as it would be if a received message were noted in
\* the health of the plugin.
handle_plugin_message_notes_health(self, from, message) ==
    [self |-> [self EXCEPT !.state.health_status = Warning(message)],
     result |-> Ok([status |-> "received"])]

\* AdiosPlugin::handle_plugin_message (takes &self: no field is written)
handle_plugin_message(self, from, message) ==
    [self |-> self, result |-> Ok([status |-> "received"])]

\* AdiosPlugin::register_capabilities (takes &self: it only logs)
register_capabilities(self) ==
    [self |-> self, result |-> Ok(Unit)]

(* ------------------------------------------------------------ Plugin trait *)

\* init as it would be if initializing also reset the health to Healthy.
init_resets_health(self, c, b) ==
    [self |-> [self EXCEPT !.ctx = Some(c), !.bus = Some(b),
                           !.state.initialized = TRUE,
                           !.state.health_status = Healthy],
     result |-> Ok(Unit)]

\* Plugin::init
init(self, c, b) ==
    LET s1 == [self EXCEPT !.ctx = Some(c), !.bus = Some(b),
                           !.state.initialized = TRUE]
        r == register_capabilities(s1)
    IN  IF IsOk(r.result)
          THEN [self |-> r.self, result |-> Ok(Unit)]
          ELSE [self |-> r.self, result |-> r.result]

\* start as it would be if the start-triggered sync went through the same
\* due-check as tick instead of being forced.
start_sync_only_when_due(self, t) ==
    LET s1 == [self EXCEPT !.state.active = TRUE]
        due == \/ ~IsSome(s1.state.last_sync)
               \/ num_minutes(t, Unwrap(s1.state.last_sync)) >= SyncMinutes
    IN  IF due
          THEN [self |-> sync_with_ecosystem(s1, t).self, result |-> Ok(Unit)]
          ELSE [self |-> s1, result |-> Ok(Unit)]

\* Plugin::start at clock reading t
start(self, t) ==
    LET s1 == [self EXCEPT !.state.active = TRUE]
        r == sync_with_ecosystem(s1, t)
    IN  IF IsOk(r.result)
          THEN [self |-> r.self, result |-> Ok(Unit)]
          ELSE [self |-> r.self, result |-> r.result]

\* stop as it would be if stopping a plugin that is not active were an error.
stop_rejects_inactive(self) ==
    IF self.state.active
      THEN [self |-> [self EXCEPT !.state.active = FALSE], result |-> Ok(Unit)]
      ELSE [self |-> self, result |-> Err("StateError")]

\* stop as it would be if it also forgot the time of the last sync.
stop_clears_last_sync(self) ==
    [self |-> [self EXCEPT !.state.active = FALSE, !.state.last_sync = None],
     result |-> Ok(Unit)]

\* stop as it would be if stopping also dropped the host's handles.
stop_drops_handles(self) ==
    [self |-> [self EXCEPT !.state.active = FALSE, !.ctx = None, !.bus = None],
     result |-> Ok(Unit)]

\* Plugin::stop
stop(self) ==
    [self |-> [self EXCEPT !.state.active = FALSE], result |-> Ok(Unit)]

\* is_healthy as it would be if only Error counted as unhealthy.
is_healthy_unless_error(self) ==
    self.state.health_status[1] # "Error"

\* Plugin::is_healthy
is_healthy(self) ==
    self.state.health_status = Healthy

\* Plugin::status
status(self) ==
    LET h == self.state.health_status
    IN  CASE h[1] = "Healthy" -> <<"Healthy">>
          [] h[1] = "Warning" -> <<"Warning: ", h[2]>>
          [] h[1] = "Error" -> <<"Error: ", h[2]>>

\* tick as it would be if the threshold comparison were strict.
tick_strict_threshold(self, t) ==
    IF self.state.active
         /\ IsSome(self.state.last_sync)
         /\ num_minutes(t, Unwrap(self.state.last_sync)) > SyncMinutes
      THEN [self |-> sync_with_ecosystem(self, t).self, result |-> Ok(Unit)]
      ELSE [self |-> self, result |-> Ok(Unit)]

\* tick as it would be if it did not look at the active flag.
tick_ignores_active(self, t) ==
    IF IsSome(self.state.last_sync)
         /\ num_minutes(t, Unwrap(self.state.last_sync)) >= SyncMinutes
      THEN [self |-> sync_with_ecosystem(self, t).self, result |-> Ok(Unit)]
      ELSE [self |-> self, result |-> Ok(Unit)]

\* Plugin::tick at clock reading t
tick(self, t) ==
    IF self.state.active
         /\ IsSome(self.state.last_sync)
         /\ num_minutes(t, Unwrap(self.state.last_sync)) >= SyncMinutes
      THEN LET r == sync_with_ecosystem(self, t)
           IN  IF IsOk(r.result)
                 THEN [self |-> r.self, result |-> Ok(Unit)]
                 ELSE [self |-> r.self, result |-> r.result]
      ELSE [self |-> self, result |-> Ok(Unit)]

(* ------------------------------------------------------------ host calls *)

\* Clock readings a call made after reading `from` can observe.
Readings(from) == {from + d : d \in Deltas} \cap 0..MaxTime

\* One host call: the plugin becomes r.self, the call returns r.result, and
\* the plugin as it was before the call is remembered in pre.
Call(op, t, r) ==
    /\ state' = r.self.state
    /\ ctx' = r.self.ctx
    /\ bus' = r.self.bus
    /\ now' = t
    /\ lastOp' = op
    /\ result' = r.result
    /\ pre' = [state |-> state, ctx |-> ctx, bus |-> bus, lastOp |-> lastOp]
    /\ healthArg' = IF op = "update_health" THEN r.arg ELSE healthArg
    /\ UNCHANGED <<manifest, created>>

InitPlugin ==
    /\ state = new.state
    /\ ctx = new.ctx
    /\ bus = new.bus
    /\ now = 0
    /\ lastOp = "new"
    /\ result = Ok(Unit)
    /\ pre = [state |-> new.state, ctx |-> new.ctx, bus |-> new.bus,
              lastOp |-> "new"]
    /\ healthArg = None

\* The plugin constructed from an info supplied literally.
Init ==
    /\ InitPlugin
    /\ manifest = <<"Unreadable">>
    /\ created = None

InitCall ==
    \E t \in Readings(now), c \in Contexts, b \in Buses :
        Call("init", t, init(Self, c, b))

StartCall ==
    \E t \in Readings(now) : Call("start", t, start(Self, t))

StopCall ==
    \E t \in Readings(now) : Call("stop", t, stop(Self))

TickCall ==
    \E t \in Readings(now) : Call("tick", t, tick(Self, t))

UpdateHealthCall ==
    \E t \in Readings(now), s \in HealthStatus :
        Call("update_health", t,
             [self |-> update_health(Self, s), result |-> Ok(Unit),
              arg |-> Some(s)])

HandleMessageCall ==
    \E t \in Readings(now), from \in Senders, m \in Payloads :
        Call("handle_message", t, handle_plugin_message(Self, from, m))

IsHealthyCall ==
    \E t \in Readings(now) :
        Call("is_healthy", t, [self |-> Self, result |-> is_healthy(Self)])

StatusCall ==
    \E t \in Readings(now) :
        Call("status", t, [self |-> Self, result |-> status(Self)])

Next ==
    \/ InitCall
    \/ StartCall
    \/ StopCall
    \/ TickCall
    \/ UpdateHealthCall
    \/ HandleMessageCall
    \/ IsHealthyCall
    \/ StatusCall

Spec == Init /\ [][Next]_vars

\* The host driving one plugin through its lifecycle as the integration
\* test does: init, then start, then ticks.
HostInit == lastOp = "new" /\ InitCall

HostStart == lastOp = "init" /\ StartCall

HostTick == lastOp \in {"start", "tick"} /\ TickCall

NextHost ==
    \/ HostInit
    \/ HostStart
    \/ HostTick

SpecHost == Init /\ [][NextHost]_vars

\* What a field of the [plugin] table of a manifest may hold; None stands
\* for a field that is absent.
NameFields == {None, Some(TomlString("smart-labeling"))}
VersionFields == {None, Some(TomlString("1.2.0")), Some(TomlInteger(2))}
DescriptionFields == {None, Some(TomlString("AI-powered smart labeling"))}
AuthorFields == {None, Some(TomlString("AdiOS"))}
CategoryFields ==
    {None} \cup {Some(TomlString(c)) :
                   c \in {"productivity", "development", "enterprise",
                          "communication", "wellness", "display",
                          "other", "research", "Productivity"}}

\* A table entry for key k when the field o is present, none otherwise.
Entry(k, o) == IF IsSome(o) THEN k :> Unwrap(o) ELSE <<>>

\* The [plugin] tables, and the manifest files, explored.
PluginTables ==
    {TomlTable(Entry("name", n) @@ Entry("version", v)
                 @@ Entry("description", d) @@ Entry("author", a)
                 @@ Entry("category", c)) :
        n \in NameFields, v \in VersionFields, d \in DescriptionFields,
        a \in AuthorFields, c \in CategoryFields}

Manifests ==
    {<<"Unreadable">>, <<"Malformed">>,
     <<"Toml", TomlTable(<<>>)>>,
     <<"Toml", TomlTable("package" :> TomlTable(<<>>))>>,
     <<"Toml", TomlTable("plugin" :> TomlString("smart-labeling"))>>}
      \cup {<<"Toml", TomlTable("plugin" :> t)>> : t \in PluginTables}

\* The plugin's identity being built from a manifest file.
InitManifest ==
    /\ InitPlugin
    /\ manifest \in Manifests
    /\ created = None

CreatePluginInfo ==
    /\ created = None
    /\ created' = Some(create_plugin_info_from_manifest(manifest))
    /\ UNCHANGED <<state, ctx, bus, now, lastOp, result, pre, healthArg,
                   manifest>>

NextManifest == CreatePluginInfo

SpecManifest == InitManifest /\ [][NextManifest]_vars

(* ------------------------------------------------------------ properties *)

\* Five minutes, in the unit of the clock.
FiveMinutes == SyncMinutes * SecondsPerMinute

\* C1: in no reachable state is the plugin active while it is not
\* initialized.  (Stated as the claim has it; start has no guard.)
C1_ActiveImpliesInitialized ==
    state.active => state.initialized

\* C2: a start() on a plugin that is not initialized returns a StateError
\* and leaves initialized, active, last_sync and the health unchanged.
C2_StartUninitializedRejected ==
    (lastOp = "start" /\ ~pre.state.initialized)
        => /\ result = Err("StateError")
           /\ state = pre.state
           /\ ~state.initialized
           /\ ~state.active

\* C3: every start() on an initialized plugin succeeds, sets active and
\* stamps last_sync with the clock reading of that start call, however
\* recent the previous sync is.
C3_StartForcesSync ==
    (lastOp = "start" /\ pre.state.initialized)
        => /\ IsOk(result)
           /\ state.active
           /\ state.last_sync = Some(now)

\* C3 witness: a restart less than five minutes after the previous sync,
\* at a later clock reading, which is stamped all the same.
C3_Witness ==
    /\ lastOp = "start"
    /\ pre.state.initialized
    /\ ~pre.state.active
    /\ IsSome(pre.state.last_sync)
    /\ now > Unwrap(pre.state.last_sync)
    /\ now < Unwrap(pre.state.last_sync) + FiveMinutes
    /\ state.active
    /\ state.last_sync = Some(now)

\* C4: for an active plugin holding an event bus, with last_sync = T, a
\* tick() before T + 5 minutes leaves last_sync alone and a tick() at or
\* after T + 5 minutes sets last_sync to the clock reading of the tick.
C4_TickThreshold ==
    (/\ lastOp = "tick"
     /\ pre.state.active
     /\ IsSome(pre.bus)
     /\ IsSome(pre.state.last_sync))
        => LET T == Unwrap(pre.state.last_sync)
           IN  /\ now < T + FiveMinutes => state.last_sync = pre.state.last_sync
               /\ now >= T + FiveMinutes => state.last_sync = Some(now)

\* C4 witness: a tick exactly five minutes after the last sync, which syncs.
C4_Witness ==
    /\ lastOp = "tick"
    /\ pre.state.active
    /\ IsSome(pre.bus)
    /\ IsSome(pre.state.last_sync)
    /\ now = Unwrap(pre.state.last_sync) + FiveMinutes
    /\ state.last_sync = Some(now)

\* C5: a tick() on an active plugin that holds an event bus and whose
\* last_sync is none performs the sync: last_sync becomes the clock reading
\* of the tick.  (Stated as the claim has it; tick skips a none last_sync.)
C5_TickSyncsWhenNeverSynced ==
    (/\ lastOp = "tick"
     /\ pre.state.active
     /\ IsSome(pre.bus)
     /\ pre.state.last_sync = None)
        => state.last_sync = Some(now)

\* C6: tick() always succeeds and leaves initialized, active and the health
\* unchanged; on a plugin that is not active it leaves last_sync unchanged
\* too, whatever time has passed since the last sync.
C6_TickFrame ==
    lastOp = "tick"
        => /\ IsOk(result)
           /\ state.initialized = pre.state.initialized
           /\ state.active = pre.state.active
           /\ state.health_status = pre.state.health_status
           /\ ~pre.state.active => state.last_sync = pre.state.last_sync

\* C6 witness: a tick on a stopped plugin five minutes or more after its
\* last sync.
C6_Witness ==
    /\ lastOp = "tick"
    /\ pre.state.initialized
    /\ ~pre.state.active
    /\ IsSome(pre.state.last_sync)
    /\ now >= Unwrap(pre.state.last_sync) + FiveMinutes
    /\ state = pre.state

\* C7: of two stop() calls in a row the second succeeds and leaves the
\* whole state as the first left it, with active false.
C7_StopIdempotent ==
    (lastOp = "stop" /\ pre.lastOp = "stop")
        => /\ IsOk(result)
           /\ state = pre.state
           /\ ~state.active

\* C7 witness: the second of two stops of a plugin that has been started.
C7_Witness ==
    /\ lastOp = "stop"
    /\ pre.lastOp = "stop"
    /\ state.initialized
    /\ IsSome(state.last_sync)
    /\ ~state.active
    /\ IsOk(result)

\* C8: with a clock that never runs backwards, last_sync is none after
\* construction, leaves none only by a call that syncs with an event bus
\* present, is never reset to none and never decreases.
C8_LastSyncMonotonic ==
    /\ lastOp = "new" => state.last_sync = None
    /\ (pre.state.last_sync = None /\ IsSome(state.last_sync))
          => /\ lastOp \in {"start", "tick"}
             /\ IsSome(pre.bus)
             /\ state.last_sync = Some(now)
    /\ IsSome(pre.state.last_sync)
          => /\ IsSome(state.last_sync)
             /\ Unwrap(state.last_sync) >= Unwrap(pre.state.last_sync)

\* C8 witness: a call that moves an existing last_sync forward.
C8_Witness ==
    /\ IsSome(pre.state.last_sync)
    /\ IsSome(state.last_sync)
    /\ Unwrap(state.last_sync) > Unwrap(pre.state.last_sync)

\* C9: an init() on a plugin that is already initialized is rejected and
\* leaves the state and the stored handles unchanged.  (Stated as the claim
\* has it; init has no guard.)
C9_InitRejectedWhenInitialized ==
    (lastOp = "init" /\ pre.state.initialized)
        => /\ ~IsOk(result)
           /\ state = pre.state
           /\ ctx = pre.ctx
           /\ bus = pre.bus

\* C10: an init() whose capability registration fails returns an error and
\* leaves the plugin uninitialized.
C10_FailedInitStaysUninitialized ==
    (lastOp = "init" /\ ~IsOk(result)) => ~state.initialized

\* The case of C10: an init() that returned an error.
C10_Case ==
    lastOp = "init" /\ ~IsOk(result)

\* C11: in every reachable state is_healthy() is true exactly when the
\* health is Healthy, which is exactly when the latest update_health call
\* passed Healthy or there has been none; status() renders "Healthy",
\* "Warning: <reason>" or "Error: <reason>" for exactly the current health;
\* a call of either returns that value and changes nothing.
C11_HealthReads ==
    /\ is_healthy(Self) <=> state.health_status = Healthy
    /\ state.health_status = Healthy
          <=> (healthArg = None \/ healthArg = Some(Healthy))
    /\ status(Self) = <<"Healthy">> <=> state.health_status = Healthy
    /\ \A h \in HealthStatus \ {Healthy} :
          /\ status(Self) = <<"Warning: ", h[2]>>
                <=> state.health_status = Warning(h[2])
          /\ status(Self) = <<"Error: ", h[2]>>
                <=> state.health_status = Error(h[2])
    /\ lastOp = "is_healthy"
          => /\ result = (healthArg \in {None, Some(Healthy)})
             /\ Self = [state |-> pre.state, ctx |-> pre.ctx, bus |-> pre.bus]
    /\ lastOp = "status"
          => /\ \/ healthArg \in {None, Some(Healthy)} /\ result = <<"Healthy">>
                \/ /\ healthArg \notin {None, Some(Healthy)}
                   /\ result = <<healthArg[1][1] \o ": ", healthArg[1][2]>>
             /\ Self = [state |-> pre.state, ctx |-> pre.ctx, bus |-> pre.bus]

\* C11 witness: status() called while the health is Warning("low disk").
C11_Witness ==
    /\ lastOp = "status"
    /\ healthArg = Some(Warning("low disk"))
    /\ state.health_status = Warning("low disk")
    /\ result = <<"Warning: ", "low disk">>

\* The plugin as it was before the latest call.
PreSelf == [state |-> pre.state, ctx |-> pre.ctx, bus |-> pre.bus]

\* C12: handle_message, whatever the sender, the payload and the lifecycle
\* state, returns {"status": "received"} and leaves the whole plugin state
\* unchanged, between any two lifecycle calls too.
C12_HandleMessageFrame ==
    lastOp = "handle_message"
        => /\ result = Ok([status |-> "received"])
           /\ state = pre.state
           /\ Self = PreSelf

\* C12 witness: a message handled by a running plugin right after its
\* start, which leaves the stamped, active state as it was.
C12_Witness ==
    /\ lastOp = "handle_message"
    /\ pre.lastOp = "start"
    /\ state.initialized
    /\ state.active
    /\ IsSome(state.last_sync)
    /\ state = pre.state

\* C13: init, start, stop and tick all succeed and none of them changes
\* the health; a plugin on which update_health was never called is healthy.
C13_LifecycleKeepsHealth ==
    /\ lastOp \in {"init", "start", "stop", "tick"}
          => /\ IsOk(result)
             /\ state.health_status = pre.state.health_status
    /\ healthArg = None => is_healthy(Self)

\* C13 witness: an init of a plugin whose health is Error, which stays
\* Error.
C13_Witness ==
    /\ lastOp = "init"
    /\ pre.state.health_status = Error("disk failure")
    /\ state.health_status = Error("disk failure")
    /\ state.initialized
    /\ IsOk(result)

\* C15: a sync attempted while the plugin holds no event bus reports
\* success and changes nothing; a start() of such a plugin therefore
\* succeeds and changes the active flag only.
C15_SyncSkippedWithoutBus ==
    /\ ~IsSome(bus)
          => sync_with_ecosystem(Self, now) = [self |-> Self, result |-> Ok(Unit)]
    /\ (lastOp = "start" /\ ~IsSome(pre.bus))
          => /\ IsOk(result)
             /\ state = [pre.state EXCEPT !.active = TRUE]
             /\ state.last_sync = pre.state.last_sync
             /\ ctx = pre.ctx
             /\ bus = pre.bus

\* C15 witness: a start() of a plugin that was never initialized.
C15_Witness ==
    /\ lastOp = "start"
    /\ ~IsSome(pre.bus)
    /\ ~state.initialized
    /\ state.last_sync = None
    /\ IsOk(result)

\* C16: update_health(s) succeeds in every lifecycle state, makes s the
\* health and leaves initialized, active, last_sync and the handles alone.
C16_UpdateHealthOverwrites ==
    lastOp = "update_health"
        => /\ IsOk(result)
           /\ IsSome(healthArg)
           /\ state = [pre.state EXCEPT !.health_status = Unwrap(healthArg)]
           /\ ctx = pre.ctx
           /\ bus = pre.bus

\* C16 witness: a Warning reported by a stopped plugin whose health was
\* Error.
C16_Witness ==
    /\ lastOp = "update_health"
    /\ pre.state.initialized
    /\ ~pre.state.active
    /\ IsSome(pre.state.last_sync)
    /\ pre.state.health_status = Error("disk failure")
    /\ state.health_status = Warning("low disk")

\* C18: a newly constructed plugin is not initialized, not active, has no
\* last_sync, is Healthy and holds neither a host context nor an event bus.
C18_DefaultState ==
    lastOp = "new"
        => /\ state.initialized = FALSE
           /\ state.active = FALSE
           /\ state.last_sync = None
           /\ state.health_status = Healthy
           /\ ctx = None
           /\ bus = None

\* C18 witness: the plugin right after construction, before any call.
C18_Witness ==
    /\ lastOp = "new"
    /\ pre.lastOp = "new"
    /\ healthArg = None
    /\ ~state.initialized
    /\ ~IsSome(bus)

\* C19: the host context and the event bus are held exactly when the
\* plugin is initialized, and no call on an initialized plugin makes it
\* uninitialized or drops a handle.
C19_HandlesIffInitialized ==
    /\ IsSome(ctx) <=> state.initialized
    /\ IsSome(bus) <=> state.initialized
    /\ pre.state.initialized
          => /\ state.initialized
             /\ IsSome(ctx)
             /\ IsSome(bus)

\* C19 witness: a stop of an initialized, running plugin, after which the
\* handles are still held.
C19_Witness ==
    /\ lastOp = "stop"
    /\ pre.state.initialized
    /\ pre.state.active
    /\ state.initialized
    /\ IsSome(ctx)
    /\ IsSome(bus)

\* C20: last_sync is never non-none on a plugin that is not initialized; a
\* plugin started and ticked without an init keeps last_sync none.
C20_LastSyncNeedsInit ==
    /\ IsSome(state.last_sync) => state.initialized
    /\ ~state.initialized => state.last_sync = None

\* C20 witness: a tick, five minutes or more after the start, of a plugin
\* that was started but never initialized.
C20_Witness ==
    /\ lastOp = "tick"
    /\ pre.lastOp = "start"
    /\ ~state.initialized
    /\ state.active
    /\ now >= FiveMinutes
    /\ state.last_sync = None

\* C17: when the host calls init, then start, then ticks, after every tick
\* last_sync is non-none and less than five minutes older than the tick,
\* and a tick changes last_sync only when five minutes or more have passed
\* since the previous stamp.
C17_BoundedStaleness ==
    lastOp = "tick"
        => /\ state.active
           /\ IsSome(pre.state.last_sync)
           /\ IsSome(state.last_sync)
           /\ now - Unwrap(state.last_sync) < FiveMinutes
           /\ now - Unwrap(state.last_sync) >= 0
           /\ state.last_sync # pre.state.last_sync
                 => now - Unwrap(pre.state.last_sync) >= FiveMinutes
           /\ now - Unwrap(pre.state.last_sync) < FiveMinutes
                 => state.last_sync = pre.state.last_sync

\* C17 witness: a tick that does not stamp, following a tick that did.
C17_Witness ==
    /\ lastOp = "tick"
    /\ pre.lastOp = "tick"
    /\ state.active
    /\ state.last_sync = pre.state.last_sync
    /\ now - Unwrap(state.last_sync) = FiveMinutes - 1
    /\ Unwrap(state.last_sync) >= FiveMinutes

\* The manifest has a [plugin] table.
HasPluginTable ==
    /\ manifest[1] = "Toml"
    /\ IsSome(get(manifest[2], "plugin"))
    /\ Unwrap(get(manifest[2], "plugin"))[1] = "Table"

\* The fields of the [plugin] table of a manifest that has one.
PluginFields == manifest[2][2]["plugin"][2]

RecognisedCategories ==
    {"productivity", "development", "enterprise", "communication",
     "wellness", "display"}

\* C14: building the plugin info from a manifest with a [plugin] table
\* succeeds whatever fields are missing or unrecognised: a missing version
\* gives "0.1.0", a missing description or author the empty string, a
\* category string outside the recognised ones the category Other.  An
\* unreadable file, malformed content and a missing "plugin" entry give an
\* InitError, and nothing else gives an error.
C14_ManifestFallbacks ==
    IsSome(created)
        => LET r == Unwrap(created)
           IN  /\ HasPluginTable
                     => /\ IsOk(r)
                        /\ "version" \notin DOMAIN PluginFields
                              => r[2].version = "0.1.0"
                        /\ "description" \notin DOMAIN PluginFields
                              => r[2].description = ""
                        /\ "author" \notin DOMAIN PluginFields
                              => r[2].author = ""
                        /\ ("category" \in DOMAIN PluginFields
                              /\ PluginFields["category"][1] = "String"
                              /\ PluginFields["category"][2]
                                    \notin RecognisedCategories)
                              => r[2].category = "Other"
               /\ ~IsOk(r) => /\ r[2][1] = "InitError"
                              /\ ~HasPluginTable
               /\ (\/ manifest[1] \in {"Unreadable", "Malformed"}
                   \/ ~IsSome(get(manifest[2], "plugin")))
                     => ~IsOk(r)

\* C14 witness: a manifest whose [plugin] table has no version and a
\* category that is not recognised, built into an info with version
\* "0.1.0" and category Other.
C14_Witness ==
    /\ IsSome(created)
    /\ HasPluginTable
    /\ "version" \notin DOMAIN PluginFields
    /\ "name" \in DOMAIN PluginFields
    /\ "category" \in DOMAIN PluginFields
    /\ PluginFields["category"] = TomlString("research")
    /\ IsOk(Unwrap(created))
    /\ Unwrap(created)[2].version = "0.1.0"
    /\ Unwrap(created)[2].category = "Other"

====
